---- MODULE Spec2Model ----
(***************************************************************************)
(* Temporal financial simulation engine of CfoSync.                        *)
(*                                                                         *)
(*   Cash-Flow Scheduler        optimize_payment_schedule                  *)
(*                              (backend/app/agents/cashflow_agent.py)     *)
(*   Amortization Simulator     create_debt_payoff_plan                    *)
(*                              (backend/app/agents/planning_agent.py)     *)
(*   Compounding Growth         simulate_investment_growth                 *)
(*   Projector                  (backend/app/agents/simulation_agent.py)   *)
(*   Multi-Decade Life          run_life_simulation                        *)
(*   Projector                  (backend/app/routes/agents.py)             *)
(*                                                                         *)
(* Each simulator is a pure function.  Its specification draws the         *)
(* arguments of one call in Init and then walks the function's loop, one   *)
(* action per program position.  The variables of the simulators that a    *)
(* specification does not run stay at their idle values.                   *)
(***************************************************************************)
EXTENDS Integers, Sequences, FiniteSets, TLC

VARIABLES
    \* ---- optimize_payment_schedule ----
    cf_pc,              \* position: idle / start / inflows / classify / advance / finish / done
    bills_due,          \* argument: the bills as given
    income_schedule,    \* argument: the expected income as given
    current_balance,    \* argument
    minimum_balance,    \* argument
    bills,              \* local: bills sorted by due date
    cf_income,          \* local `income`: income sorted by date
    income_dates,       \* local dict: date -> amount still to receive
    bill_idx,           \* index in `bills` of the bill of the current iteration
    balance,            \* local: running balance
    balance_after,      \* local: balance - bill_amount of the current iteration
    schedule,           \* local: list of schedule entries
    cf_result,          \* the returned dict (NoResult until the return)
    credited,           \* history: total of all `balance += inc_amount`
    \* ---- create_debt_payoff_plan ----
    dp_pc,              \* position: idle / start / loop / done
    debt_list,          \* argument `debts`, parsed
    monthly_debt_budget,\* argument
    strategy,           \* argument
    sorted_debts,       \* local: debt_list in payment priority
    total_min_payments, \* local
    extra_payment,      \* local
    payoff_order,       \* local: list of payoff records
    remaining_debts,    \* local: copies of the debts still active
    month,              \* local: periods simulated so far
    dp_result,          \* the returned dict (NoResult until the return)
    \* ---- simulate_investment_growth ----
    gp_pc,              \* position: idle / start / gains / projection / done / raised
    monthly_sip,        \* argument
    investment_years,   \* argument
    expected_return,    \* argument, in percent
    initial_investment, \* argument
    total_invested,     \* local
    scenarios,          \* local dict: worst_case / base_case / best_case
    gp_result,          \* the returned dict (NoResult until the return)
    \* ---- run_life_simulation ----
    lp_pc,              \* position: idle / start / loop / summary / done / raised
    current_age,        \* request field
    retirement_age,     \* request field
    current_income,     \* request field
    current_savings,    \* request field
    monthly_expenses,   \* request field
    selected_events,    \* request field: list of {name, year, cost}
    results,            \* local: the year records
    net_worth,          \* local
    income,             \* local
    annual_expenses,    \* local
    first_negative_year,\* local (NoAge for None)
    peak_net_worth,     \* local
    peak_year,          \* local
    age,                \* loop variable: the next age to simulate
    year_locals,        \* history: the locals of every pass of the loop
    no_event_locals,    \* history: the locals of the same passes without any event
    lp_result           \* the returned dict (NoResult until the return)

cfvars == <<cf_pc, bills_due, income_schedule, current_balance, minimum_balance,
            bills, cf_income, income_dates, bill_idx, balance, balance_after,
            schedule, cf_result, credited>>

dpvars == <<dp_pc, debt_list, monthly_debt_budget, strategy, sorted_debts,
            total_min_payments, extra_payment, payoff_order, remaining_debts,
            month, dp_result>>

gpvars == <<gp_pc, monthly_sip, investment_years, expected_return,
            initial_investment, total_invested, scenarios, gp_result>>

lpvars == <<lp_pc, current_age, retirement_age, current_income, current_savings,
            monthly_expenses, selected_events, results, net_worth, income,
            annual_expenses, first_negative_year, peak_net_worth, peak_year, age,
            year_locals, no_event_locals, lp_result>>

vars == <<cfvars, dpvars, gpvars, lpvars>>

(***************************************************************************)
(* Common helpers                                                          *)
(***************************************************************************)

\* Money of the Cash-Flow Scheduler is counted in 1/Scale of a currency unit
\* (Scale = 2: halves, which Python floats hold exactly).
Scale == 2

NoResult == [kind |-> "none"]

SeqsUpTo(S, n) == UNION {[1..k -> S] : k \in 0..n}

Max0(x) == IF x > 0 THEN x ELSE 0

\* Python sorted(s, key=...): ascending and stable.  key[i] is the key of s[i].
StableSort(s, key) ==
    LET n == Len(s)
        rank(i) == Cardinality({j \in 1..n :
                        \/ key[j] < key[i]
                        \/ (key[j] = key[i] /\ j < i)}) + 1
    IN  [p \in 1..n |-> s[CHOOSE i \in 1..n : rank(i) = p]]

\* Python sorted(s, key=..., reverse=True): descending, and still stable (equal
\* keys keep their input order).
StableSortDesc(s, key) ==
    LET n == Len(s)
        rank(i) == Cardinality({j \in 1..n :
                        \/ key[j] > key[i]
                        \/ (key[j] = key[i] /\ j < i)}) + 1
    IN  [p \in 1..n |-> s[CHOOSE i \in 1..n : rank(i) = p]]

\* The sequence s back to front.
Reversed(s) == [p \in 1..Len(s) |-> s[Len(s) + 1 - p]]

\* Python round() of the number v/s: the nearest integer, a half to the even one.
RoundHalfEven(v, s) ==
    LET q == v \div s
        r == v % s
    IN  IF 2 * r < s THEN q
        ELSE IF 2 * r > s THEN q + 1
        ELSE IF q % 2 = 0 THEN q ELSE q + 1

\* Python round(x, 0) of an amount of the Cash-Flow Scheduler, x = v/Scale; the
\* result is again in 1/Scale units.
Round0(v) == RoundHalfEven(v, Scale) * Scale

\* floor(x * num / den) for x >= 0, without forming the product x * num.
MulDiv(x, num, den) == (x \div den) * num + ((x % den) * num) \div den

RECURSIVE SumAmounts(_)
\* sum(x.get("amount", 0) for x in s)
SumAmounts(s) == IF s = <<>> THEN 0 ELSE Head(s).amount + SumAmounts(Tail(s))

(***************************************************************************)
(* Idle values of the simulators a specification does not run              *)
(***************************************************************************)

DP_Idle ==
    /\ dp_pc = "idle"
    /\ debt_list = <<>>
    /\ monthly_debt_budget = 0
    /\ strategy = "none"
    /\ sorted_debts = <<>>
    /\ total_min_payments = 0
    /\ extra_payment = 0
    /\ payoff_order = <<>>
    /\ remaining_debts = <<>>
    /\ month = 0
    /\ dp_result = NoResult

GP_Idle ==
    /\ gp_pc = "idle"
    /\ monthly_sip = 0
    /\ investment_years = 0
    /\ expected_return = 0
    /\ initial_investment = 0
    /\ total_invested = 0
    /\ scenarios = <<>>
    /\ gp_result = NoResult

\* first_negative_year = None
NoAge == -1

LP_Idle ==
    /\ lp_pc = "idle"
    /\ current_age = 0
    /\ retirement_age = 0
    /\ current_income = 0
    /\ current_savings = 0
    /\ monthly_expenses = 0
    /\ selected_events = <<>>
    /\ results = <<>>
    /\ net_worth = 0
    /\ income = 0
    /\ annual_expenses = 0
    /\ first_negative_year = NoAge
    /\ peak_net_worth = 0
    /\ peak_year = 0
    /\ age = 0
    /\ year_locals = <<>>
    /\ no_event_locals = <<>>
    /\ lp_result = NoResult

(***************************************************************************)
(* Cash-Flow Scheduler: optimize_payment_schedule                          *)
(***************************************************************************)

MaxBills == 2
MaxInflows == 2

BillAmounts == {1, 3}
BillDates == {1, 2}
InflowAmounts == {0, 3}
InflowDates == {1, 2, 3}
StartBalances == {0, 2}
Floors == {-2, 0, 2}

\* The i-th bill of the argument is named i.
BillLists ==
    {[i \in 1..Len(s) |-> [name |-> i, amount |-> s[i][1], due_date |-> s[i][2]]] :
        s \in SeqsUpTo(BillAmounts \X BillDates, MaxBills)}

InflowLists ==
    {[i \in 1..Len(s) |-> [source |-> i, amount |-> s[i][1], date |-> s[i][2]]] :
        s \in SeqsUpTo(InflowAmounts \X InflowDates, MaxInflows)}

\* key=lambda x: x.get("due_date", ...) and key=lambda x: x.get("date", ...)
DueDates(s) == [i \in 1..Len(s) |-> s[i].due_date]
Dates(s) == [i \in 1..Len(s) |-> s[i].date]

SortedBills(s) == StableSort(s, DueDates(s))
SortedIncome(s) == StableSort(s, Dates(s))

\* {i.get("date"): i.get("amount", 0) for i in income}: a later inflow of the
\* same date replaces the earlier one.
IncomeDatesOf(inc) ==
    [d \in {inc[j].date : j \in 1..Len(inc)} |->
        LET last == CHOOSE j \in 1..Len(inc) :
                        /\ inc[j].date = d
                        /\ \A k \in 1..Len(inc) : inc[k].date = d => k <= j
        IN  inc[last].amount]

RECURSIVE SumDict(_, _)
SumDict(d, keys) ==
    IF keys = {} THEN 0
    ELSE LET k == CHOOSE x \in keys : TRUE
         IN  d[k] + SumDict(d, keys \ {k})

\* The keys the inner loop of one bill acts on.
DueKeys(d, bill_date) == {k \in DOMAIN d : k <= bill_date}

\* A call of optimize_payment_schedule leaves the other simulators alone.
CF_Frame == UNCHANGED <<dpvars, gpvars, lpvars>>

CF_Idle ==
    /\ cf_pc = "idle"
    /\ bills_due = <<>>
    /\ income_schedule = <<>>
    /\ current_balance = 0
    /\ minimum_balance = 0
    /\ bills = <<>>
    /\ cf_income = <<>>
    /\ income_dates = <<>>
    /\ bill_idx = 0
    /\ balance = 0
    /\ balance_after = 0
    /\ schedule = <<>>
    /\ cf_result = NoResult
    /\ credited = 0

CF_Init ==
    /\ DP_Idle
    /\ GP_Idle
    /\ LP_Idle
    /\ cf_pc = "start"
    /\ bills_due \in BillLists
    /\ income_schedule \in InflowLists
    /\ current_balance \in StartBalances
    /\ minimum_balance \in Floors
    /\ bills = <<>>
    /\ cf_income = <<>>
    /\ income_dates = <<>>
    /\ bill_idx = 0
    /\ balance = 0
    /\ balance_after = 0
    /\ schedule = <<>>
    /\ cf_result = NoResult
    /\ credited = 0

\* Lines 200-210: sort both lists, set up the walk.
CF_Start ==
    /\ cf_pc = "start"
    /\ CF_Frame
    /\ bills' = SortedBills(bills_due)
    /\ cf_income' = SortedIncome(income_schedule)
    /\ schedule' = <<>>
    /\ balance' = current_balance
    /\ income_dates' = IncomeDatesOf(SortedIncome(income_schedule))
    /\ bill_idx' = IF Len(bills_due) > 0 THEN 1 ELSE 0
    /\ cf_pc' = IF Len(bills_due) > 0 THEN "inflows" ELSE "finish"
    /\ UNCHANGED <<bills_due, income_schedule, current_balance, minimum_balance,
                   balance_after, cf_result, credited>>

\* Lines 212-220: the inner loop over income_dates for the current bill.
CF_ApplyInflows ==
    /\ cf_pc = "inflows"
    /\ CF_Frame
    /\ LET bill_date == bills[bill_idx].due_date
           due == DueKeys(income_dates, bill_date)
       IN  /\ balance' = balance + SumDict(income_dates, due)
           /\ credited' = credited + SumDict(income_dates, due)
           /\ income_dates' = [d \in DOMAIN income_dates |->
                                 IF d \in due THEN 0 ELSE income_dates[d]]
    /\ cf_pc' = "classify"
    /\ UNCHANGED <<bills_due, income_schedule, current_balance, minimum_balance,
                   bills, cf_income, bill_idx, balance_after, schedule, cf_result>>

\* StatusOf with the floor test made strict.
StatusOf_StrictFloor(ba, floor) ==
    IF ba > floor THEN "PAY_ON_TIME"
    ELSE IF ba >= 0 THEN "PAY_WITH_CAUTION"
    ELSE "DELAY_NEEDED"

StatusOf(ba, floor) ==
    IF ba >= floor THEN "PAY_ON_TIME"
    ELSE IF ba >= 0 THEN "PAY_WITH_CAUTION"
    ELSE "DELAY_NEEDED"

\* Lines 235-237: the first date of income_dates, in dict order (ascending),
\* with an amount > 0 and after the bill's date; the bill's date when none.
PaymentDateOf(status, d, bill_date) ==
    LET future_income == {k \in DOMAIN d : d[k] > 0 /\ k > bill_date}
    IN  IF status = "DELAY_NEEDED" /\ future_income # {}
        THEN CHOOSE k \in future_income : \A m \in future_income : k <= m
        ELSE bill_date

\* The value stored under "balance_after" in a schedule entry.
ReportedBalance(ba) == Round0(ba)

\* Lines 222-249: balance_after, status, payment date, schedule.append.
CF_Classify ==
    /\ cf_pc = "classify"
    /\ CF_Frame
    /\ LET bill == bills[bill_idx]
           ba == balance - bill.amount
           status == StatusOf(ba, minimum_balance)
       IN  /\ balance_after' = ba
           /\ schedule' = Append(schedule,
                  [bill |-> bill.name,
                   amount |-> bill.amount,
                   due_date |-> bill.due_date,
                   recommended_pay_date |->
                       PaymentDateOf(status, income_dates, bill.due_date),
                   status |-> status,
                   balance_after |-> ReportedBalance(ba)])
    /\ cf_pc' = "advance"
    /\ UNCHANGED <<bills_due, income_schedule, current_balance, minimum_balance,
                   bills, cf_income, income_dates, bill_idx, balance, cf_result,
                   credited>>

\* CarriedBalance without the clamp at zero.
CarriedBalance_NoClamp(ba) == ba

\* The balance carried to the next bill.
CarriedBalance(ba) == Max0(ba)

\* Line 251, and the loop header for the next bill.
CF_Advance ==
    /\ cf_pc = "advance"
    /\ CF_Frame
    /\ balance' = CarriedBalance(balance_after)
    /\ IF bill_idx < Len(bills)
       THEN bill_idx' = bill_idx + 1 /\ cf_pc' = "inflows"
       ELSE bill_idx' = bill_idx /\ cf_pc' = "finish"
    /\ UNCHANGED <<bills_due, income_schedule, current_balance, minimum_balance,
                   bills, cf_income, income_dates, balance_after, schedule,
                   cf_result, credited>>

IsDelay(s) == s.status = "DELAY_NEEDED"

\* Lines 253-267: crunch periods and the returned dict.
CF_Finish ==
    /\ cf_pc = "finish"
    /\ CF_Frame
    /\ cf_result' = [kind |-> "schedule",
                     current_balance |-> current_balance,
                     total_bills |-> SumAmounts(bills),
                     total_income_expected |-> SumAmounts(cf_income),
                     payment_schedule |-> schedule,
                     crunch_alerts |-> SelectSeq(schedule, IsDelay)]
    /\ cf_pc' = "done"
    /\ UNCHANGED <<bills_due, income_schedule, current_balance, minimum_balance,
                   bills, cf_income, income_dates, bill_idx, balance, balance_after,
                   schedule, credited>>

CF_Next == CF_Start \/ CF_ApplyInflows \/ CF_Classify \/ CF_Advance \/ CF_Finish

SpecCash == CF_Init /\ [][CF_Next]_vars

(***************************************************************************)
(* Amortization Simulator: create_debt_payoff_plan                         *)
(***************************************************************************)

MaxDebts == 2

\* `while remaining_debts and month < 120`
MaxMonths == 120

\* A balance above BalCap is held as BalCap.  With the inputs below a balance
\* that reaches BalCap belongs to a debt whose rate is positive and grows from
\* then on in every period (BalCap > 2 * min_payment + extra_payment), so the
\* debt is never paid off, whatever its exact balance.
BalCap == 40

DebtNames == {"a", "b"}
DebtBalances == {2, 4}
\* Annual percentages whose monthly rate (rate / 100 / 12) is a whole number,
\* so that every balance is a whole number and the float arithmetic is exact.
DebtRates == {0, 1200}
DebtMinPayments == {1, 2}
Budgets == {1, 2, 3, 5}
Strategies == {"avalanche", "snowball"}

Debts == [name : DebtNames, balance : DebtBalances,
          interest_rate : DebtRates, min_payment : DebtMinPayments]

DebtLists == SeqsUpTo(Debts, MaxDebts)

Sat(x) == IF x > BalCap THEN BalCap ELSE x

InterestRates(s) == [i \in 1..Len(s) |-> s[i].interest_rate]
Balances(s) == [i \in 1..Len(s) |-> s[i].balance]

\* SortedDebts with the descending order obtained by reversing an ascending
\* sort, which turns equal keys around.
SortedDebts_ReverseOfAscending(dl, strat) ==
    IF strat = "avalanche" THEN Reversed(StableSort(dl, InterestRates(dl)))
    ELSE StableSort(dl, Balances(dl))

\* Lines 193-196.
SortedDebts(dl, strat) ==
    IF strat = "avalanche" THEN StableSortDesc(dl, InterestRates(dl))
    ELSE StableSort(dl, Balances(dl))

RECURSIVE SumMinPayments(_)
\* sum(d.get("min_payment", 0) for d in debt_list)
SumMinPayments(s) ==
    IF s = <<>> THEN 0 ELSE Head(s).min_payment + SumMinPayments(Tail(s))

RECURSIVE SumBalances(_)
\* sum(d.get("balance", 0) for d in debt_list)
SumBalances(s) == IF s = <<>> THEN 0 ELSE Head(s).balance + SumBalances(Tail(s))

\* Infeasible with a budget equal to the minimum payments refused as well.
Infeasible_OrEqual(extra) == extra <= 0

\* Line 202.
Infeasible(extra) == extra < 0

\* The loop test of line 214 without the cap.
LoopContinues_NoCap(rem, m) == rem # <<>>

\* Line 214.
LoopContinues(rem, m) == rem # <<>> /\ m < MaxMonths

\* MonthlyInterest with a charge of one unit on every positive balance, also
\* at a zero rate.
MonthlyInterest_WithCharge(b, rate) ==
    (b * rate) \div 1200 + (IF b > 0 THEN 1 ELSE 0)

\* Line 222.
MonthlyInterest(b, rate) == (b * rate) \div 1200

\* MinThenInterest in the other order: the interest on the whole balance, then
\* the minimum payment.
InterestThenMin(d) ==
    [d EXCEPT !.balance =
        Sat(d.balance + MonthlyInterest(d.balance, d.interest_rate)) - d.min_payment]

\* Lines 220-223 for one debt: the minimum payment, then the interest on what
\* remains.
MinThenInterest(d) ==
    LET b == d.balance - d.min_payment
    IN  [d EXCEPT !.balance = Sat(b + MonthlyInterest(b, d.interest_rate))]

\* ApplyExtra with the minimum payments of the debts already paid off added to
\* the extra: the first debt gets all of the budget the open debts' minimum
\* payments leave.
ApplyExtra_WithFreedMinimums(rem, extra) ==
    IF rem = <<>> THEN rem
    ELSE [rem EXCEPT ![1].balance =
             rem[1].balance - (monthly_debt_budget - SumMinPayments(rem))]

\* ApplyExtra with the extra added to the balance of the first debt.
ApplyExtra_Added(rem, extra) ==
    IF rem = <<>> THEN rem
    ELSE [rem EXCEPT ![1].balance = Sat(rem[1].balance + extra)]

\* Lines 226-227.
ApplyExtra(rem, extra) ==
    IF rem = <<>> THEN rem
    ELSE [rem EXCEPT ![1].balance = rem[1].balance - extra]

\* next(d["balance"] for d in debt_list if d["name"] == name)
OriginalBalance(dl, name) ==
    LET first == CHOOSE j \in 1..Len(dl) :
                    /\ dl[j].name = name
                    /\ \A k \in 1..Len(dl) : dl[k].name = name => j <= k
    IN  dl[first].balance

\* IsPaid with a balance of exactly zero not counted as paid.
IsPaid_BelowZero(d) == d.balance < 0

IsPaid(d) == d.balance <= 0
IsActive(d) == d.balance > 0

\* Lines 230-236: the record of each debt paid off in period m, in list order.
PayoffRecords(rem, dl, m) ==
    LET paid == SelectSeq(rem, IsPaid)
    IN  [i \in 1..Len(paid) |->
            [name |-> paid[i].name,
             payoff_month |-> m,
             original_balance |-> OriginalBalance(dl, paid[i].name)]]

\* TotalMonths without the marker: the bare period count.
TotalMonths_NoMarker(rem, m) == [prefix |-> "", months |-> m]

\* Line 245: the period count `month`, or the string f">{month}" when debts
\* remain; held as the prefix ("" or ">") and the count.
TotalMonths(rem, m) == [prefix |-> IF rem = <<>> THEN "" ELSE ">", months |-> m]

Names(s) == [i \in 1..Len(s) |-> s[i].name]

\* A call of create_debt_payoff_plan leaves the other simulators alone.
DP_Frame == UNCHANGED <<cfvars, gpvars, lpvars>>

DP_Init ==
    /\ CF_Idle
    /\ GP_Idle
    /\ LP_Idle
    /\ dp_pc = "start"
    /\ debt_list \in DebtLists
    /\ monthly_debt_budget \in Budgets
    /\ strategy \in Strategies
    /\ sorted_debts = <<>>
    /\ total_min_payments = 0
    /\ extra_payment = 0
    /\ payoff_order = <<>>
    /\ remaining_debts = <<>>
    /\ month = 0
    /\ dp_result = NoResult

\* Lines 190-212: sort, totals, the feasibility test, and the loop set-up.
DP_Start ==
    /\ dp_pc = "start"
    /\ DP_Frame
    /\ sorted_debts' = SortedDebts(debt_list, strategy)
    /\ total_min_payments' = SumMinPayments(debt_list)
    /\ extra_payment' = monthly_debt_budget - SumMinPayments(debt_list)
    /\ IF Infeasible(monthly_debt_budget - SumMinPayments(debt_list))
       THEN /\ dp_result' = [kind |-> "error",
                             error |-> "Monthly budget is less than minimum payments required",
                             minimum_required |-> SumMinPayments(debt_list),
                             provided |-> monthly_debt_budget]
            /\ dp_pc' = "done"
            /\ UNCHANGED <<payoff_order, remaining_debts, month>>
       ELSE /\ payoff_order' = <<>>
            /\ remaining_debts' = SortedDebts(debt_list, strategy)
            /\ month' = 0
            /\ dp_pc' = "loop"
            /\ UNCHANGED dp_result
    /\ UNCHANGED <<debt_list, monthly_debt_budget, strategy>>

\* DP_Month with remaining_debts holding the caller's records themselves
\* instead of copies of them: every balance written in the period is written
\* to the record of that name in debt_list as well.
DP_Month_NoCopy ==
    /\ dp_pc = "loop"
    /\ DP_Frame
    /\ LoopContinues(remaining_debts, month)
    /\ month' = month + 1
    /\ LET after_min == [i \in 1..Len(remaining_debts) |->
                            MinThenInterest(remaining_debts[i])]
           after_extra == ApplyExtra(after_min, extra_payment)
       IN  /\ payoff_order' = payoff_order \o
                                PayoffRecords(after_extra, debt_list, month + 1)
           /\ remaining_debts' = SelectSeq(after_extra, IsActive)
           /\ debt_list' =
                 [i \in 1..Len(debt_list) |->
                     IF \E j \in 1..Len(after_extra) :
                            after_extra[j].name = debt_list[i].name
                     THEN [debt_list[i] EXCEPT !.balance =
                              after_extra[CHOOSE j \in 1..Len(after_extra) :
                                  after_extra[j].name = debt_list[i].name].balance]
                     ELSE debt_list[i]]
    /\ UNCHANGED <<dp_pc, monthly_debt_budget, strategy, sorted_debts,
                   total_min_payments, extra_payment, dp_result>>

\* Lines 214-237: one period.
DP_Month ==
    /\ dp_pc = "loop"
    /\ DP_Frame
    /\ LoopContinues(remaining_debts, month)
    /\ month' = month + 1
    /\ LET after_min == [i \in 1..Len(remaining_debts) |->
                            MinThenInterest(remaining_debts[i])]
           after_extra == ApplyExtra(after_min, extra_payment)
       IN  /\ payoff_order' = payoff_order \o
                                PayoffRecords(after_extra, debt_list, month + 1)
           /\ remaining_debts' = SelectSeq(after_extra, IsActive)
    /\ UNCHANGED <<dp_pc, debt_list, monthly_debt_budget, strategy, sorted_debts,
                   total_min_payments, extra_payment, dp_result>>

\* Lines 239-248: the returned plan.
DP_Return ==
    /\ dp_pc = "loop"
    /\ DP_Frame
    /\ ~LoopContinues(remaining_debts, month)
    /\ dp_result' = [kind |-> "plan",
                     strategy |-> strategy,
                     total_debt |-> SumBalances(debt_list),
                     monthly_budget |-> monthly_debt_budget,
                     extra_payment_available |-> extra_payment,
                     payoff_order |-> payoff_order,
                     total_months_to_debt_free |-> TotalMonths(remaining_debts, month),
                     payment_priority |-> Names(sorted_debts)]
    /\ dp_pc' = "done"
    /\ UNCHANGED <<debt_list, monthly_debt_budget, strategy, sorted_debts,
                   total_min_payments, extra_payment, payoff_order,
                   remaining_debts, month>>

DP_Next == DP_Start \/ DP_Month \/ DP_Return

SpecDebt == DP_Init /\ [][DP_Next]_vars

\* Debt records with a negative balance or a negative rate: the function
\* takes whatever numbers the caller's JSON holds.
MalformedDebts == [name : DebtNames, balance : {-2, 2},
                   interest_rate : {-1200, 0}, min_payment : {1}]

MalformedDebtLists ==
    {dl \in SeqsUpTo(MalformedDebts, MaxDebts) :
        \E i \in 1..Len(dl) : dl[i].balance < 0 \/ dl[i].interest_rate < 0}

\* A call whose list holds at least one such record.
DP_InitMalformed ==
    /\ CF_Idle
    /\ GP_Idle
    /\ LP_Idle
    /\ dp_pc = "start"
    /\ debt_list \in MalformedDebtLists
    /\ monthly_debt_budget \in Budgets
    /\ strategy \in Strategies
    /\ sorted_debts = <<>>
    /\ total_min_payments = 0
    /\ extra_payment = 0
    /\ payoff_order = <<>>
    /\ remaining_debts = <<>>
    /\ month = 0
    /\ dp_result = NoResult

SpecDebtMalformed == DP_InitMalformed /\ [][DP_Next]_vars

(***************************************************************************)
(* Compounding Growth Projector: simulate_investment_growth                *)
(*                                                                         *)
(* The floats of calculate_sip_value are held in fixed point: a growth     *)
(* factor as a multiple of 1/FP, an amount of money as a multiple of       *)
(* 1/VScale of a currency unit; every operation rounds down to the next    *)
(* such multiple.  Rates are whole percentages.                            *)
(***************************************************************************)

FP == 1000000
VScale == 10

MaxYears == 2

MonthlySips == {0, 100, 150}
InitialInvestments == {0, 100}
ExpectedReturns == {0, 2, 5, 6, 8, 10, 12}

\* The floor of line 134.
MinReturn == 6
\* The distance of the worst and the best case from the expected return.
ReturnSpread == 4

Max2(a, b) == IF a >= b THEN a ELSE b

RECURSIVE PowFP(_, _, _)
\* (num/den) ** k, as a multiple of 1/FP.
PowFP(num, den, k) ==
    IF k = 0 THEN FP ELSE MulDiv(PowFP(num, den, k - 1), num, den)

\* Lines 119-127, the result in 1/VScale units: the annuity-due value of the
\* monthly amounts when the monthly rate is positive and their plain sum
\* otherwise, plus the lump sum compounded yearly.
calculate_sip_value(monthly_amount, years, annual_return, initial) ==
    LET n == years * 12
        sip_value ==
            IF annual_return > 0
            THEN LET pow == PowFP(1200 + annual_return, 1200, n)
                     factor == MulDiv(pow - FP, 1200, annual_return)
                 IN  MulDiv(MulDiv(factor, monthly_amount * VScale, FP),
                            1200 + annual_return, 1200)
            ELSE monthly_amount * n * VScale
        initial_growth ==
            MulDiv(PowFP(100 + annual_return, 100, years), initial * VScale, FP)
    IN  sip_value + initial_growth

\* round(calculate_sip_value(...), 0), in currency units.
FinalValue(monthly_amount, years, annual_return, initial) ==
    RoundHalfEven(calculate_sip_value(monthly_amount, years, annual_return, initial),
                  VScale)

\* Lines 134, 138, 142: the return rate of each scenario.
WorstRate(r) == Max2(MinReturn, r - ReturnSpread)
BaseRate(r) == r
BestRate(r) == r + ReturnSpread

ScenarioNames == {"worst_case", "base_case", "best_case"}

ScenarioRate(name, r) ==
    CASE name = "worst_case" -> WorstRate(r)
      [] name = "base_case" -> BaseRate(r)
      [] name = "best_case" -> BestRate(r)

\* Line 150: round((final_value / total_invested - 1) * 100, 1), in tenths of
\* a percent.
GainPercent(final_value, total) ==
    RoundHalfEven((final_value * 10000) \div total - 10000, 10)

\* A call of simulate_investment_growth leaves the other simulators alone.
GP_Frame == UNCHANGED <<cfvars, dpvars, lpvars>>

GP_Init ==
    /\ CF_Idle
    /\ DP_Idle
    /\ LP_Idle
    /\ gp_pc = "start"
    /\ monthly_sip \in MonthlySips
    /\ investment_years \in 1..MaxYears
    /\ expected_return \in ExpectedReturns
    /\ initial_investment \in InitialInvestments
    /\ total_invested = 0
    /\ scenarios = <<>>
    /\ gp_result = NoResult

\* Lines 117-145: total invested and the three scenarios.
GP_Scenarios ==
    /\ gp_pc = "start"
    /\ GP_Frame
    /\ total_invested' = initial_investment + monthly_sip * (investment_years * 12)
    /\ scenarios' = [name \in ScenarioNames |->
                        [return_rate |-> ScenarioRate(name, expected_return),
                         final_value |->
                             FinalValue(monthly_sip, investment_years,
                                        ScenarioRate(name, expected_return),
                                        initial_investment)]]
    /\ gp_pc' = "gains"
    /\ UNCHANGED <<monthly_sip, investment_years, expected_return,
                   initial_investment, gp_result>>

\* Lines 148-150: gain and gain-percent of each scenario.
GP_Gains ==
    /\ gp_pc = "gains"
    /\ GP_Frame
    /\ total_invested # 0
    /\ scenarios' = [name \in ScenarioNames |->
                        [return_rate |-> scenarios[name].return_rate,
                         final_value |-> scenarios[name].final_value,
                         total_gain |-> scenarios[name].final_value - total_invested,
                         gain_percent |->
                             GainPercent(scenarios[name].final_value, total_invested)]]
    /\ gp_pc' = "projection"
    /\ UNCHANGED <<monthly_sip, investment_years, expected_return,
                   initial_investment, total_invested, gp_result>>

\* Line 150 with total_invested = 0: the division raises ZeroDivisionError,
\* which nothing in the function catches.
GP_Raise ==
    /\ gp_pc = "gains"
    /\ GP_Frame
    /\ total_invested = 0
    /\ gp_pc' = "raised"
    /\ UNCHANGED <<monthly_sip, investment_years, expected_return,
                   initial_investment, total_invested, scenarios, gp_result>>

\* Lines 153-162: the base-case trace, one record per year.
YearlyProjection(sip, years, r, initial) ==
    [year \in 1..years |->
        LET value == calculate_sip_value(sip, year, r, initial)
            invested == initial + sip * year * 12
        IN  [year |-> year,
             value |-> RoundHalfEven(value, VScale),
             invested |-> invested,
             gain |-> RoundHalfEven(value - invested * VScale, VScale)]]

\* yearly_projection[-5:]
LastFive(s) == IF Len(s) <= 5 THEN s ELSE SubSeq(s, Len(s) - 4, Len(s))

\* Lines 153-178: the trace and the returned dict.
GP_Return ==
    /\ gp_pc = "projection"
    /\ GP_Frame
    /\ gp_result' = [kind |-> "projection",
                     total_invested |-> total_invested,
                     scenarios |-> scenarios,
                     yearly_projection |->
                         LastFive(YearlyProjection(monthly_sip, investment_years,
                                                   expected_return,
                                                   initial_investment))]
    /\ gp_pc' = "done"
    /\ UNCHANGED <<monthly_sip, investment_years, expected_return,
                   initial_investment, total_invested, scenarios>>

GP_Next == GP_Scenarios \/ GP_Gains \/ GP_Raise \/ GP_Return

SpecGrowth == GP_Init /\ [][GP_Next]_vars

(***************************************************************************)
(* Multi-Decade Life Projector: run_life_simulation                        *)
(*                                                                         *)
(* The float locals (net_worth, income, expenses, savings) are held in     *)
(* fixed point, as multiples of 1/LScale of a currency unit; every         *)
(* multiplication rounds down to the next such multiple.  The request      *)
(* fields are whole numbers.  The storage lookup before the loop, the      *)
(* investment side projection and the generated advice texts after it do   *)
(* not touch the simulation and are left out.                              *)
(***************************************************************************)

LScale == 100

MaxEvents == 2

\* <<current_age, retirement_age>>
AgePairs == {<<39, 28>>, <<39, 39>>, <<39, 41>>, <<39, 60>>, <<54, 56>>}
CurrentIncomes == {0, 60000}
CurrentSavings == {0, 100000}
MonthlyExpenses == {0, 4000}
EventYears == {40, 52}
EventCosts == {-5000, 10000}

\* The i-th event of the request is named i.
EventLists ==
    {[i \in 1..Len(s) |-> [name |-> i, year |-> s[i][1], cost |-> s[i][2]]] :
        s \in SeqsUpTo(EventYears \X EventCosts, MaxEvents)}

\* year = 2025 + (age - request.current_age)
BaseYear == 2025
\* income = net_worth * 0.04 + 24000
WithdrawalPercent == 4
SupplementalIncome == 24000
\* the range of the loop ends before retirement_age + 11
HorizonPastRetirement == 11

\* EventsThisYear with the trigger matched as a lower bound instead of by
\* equality.
EventsThisYear_FromTrigger(events, a) == SelectSeq(events, LAMBDA ev : ev.year <= a)

\* Line 2423.
EventsThisYear(events, a) == SelectSeq(events, LAMBDA ev : ev.year = a)

RECURSIVE SumCosts(_)
\* sum(e.get('cost', 0) for e in events)
SumCosts(s) == IF s = <<>> THEN 0 ELSE Head(s).cost + SumCosts(Tail(s))

\* RaiseFactor without the third band.
RaiseFactor_TwoBands(years_from_start) ==
    IF years_from_start < 10 THEN 104 ELSE 103

\* Lines 2431-2436: the raise of a working year, in percent of the income.
RaiseFactor(years_from_start) ==
    IF years_from_start < 10 THEN 104
    ELSE IF years_from_start < 20 THEN 103
    ELSE 102

\* NextIncome with the withdrawal-based income recomputed in every year from
\* the retirement age on.
NextIncome_RecomputedEachYear(inc, nw, a, ret_age, years_from_start) ==
    IF a < ret_age THEN MulDiv(inc, RaiseFactor(years_from_start), 100)
    ELSE MulDiv(nw, WithdrawalPercent, 100) + SupplementalIncome * LScale

\* Lines 2429-2440.
NextIncome(inc, nw, a, ret_age, years_from_start) ==
    IF a < ret_age THEN MulDiv(inc, RaiseFactor(years_from_start), 100)
    ELSE IF a = ret_age
         THEN MulDiv(nw, WithdrawalPercent, 100) + SupplementalIncome * LScale
         ELSE inc

RECURSIVE Inflated(_, _)
\* Line 2443: annual_expenses * ((1 + 0.025) ** years_from_start).
Inflated(x, k) == IF k = 0 THEN x ELSE MulDiv(Inflated(x, k - 1), 1025, 1000)

\* Lines 2446-2451, in percent.
InvestmentReturn(a) == IF a < 40 THEN 8 ELSE IF a < 55 THEN 7 ELSE 5

\* YearStatus with the savings tested before the net worth.
YearStatus_SavingsFirst(nw, savings) ==
    IF savings < 0 THEN "warning"
    ELSE IF nw < 0 THEN "negative"
    ELSE "positive"

\* Lines 2463-2467.
YearStatus(nw, savings) ==
    IF nw < 0 THEN "negative"
    ELSE IF savings < 0 THEN "warning"
    ELSE "positive"

\* round(x) of an amount held in 1/LScale units, in currency units.
RoundUnits(v) == RoundHalfEven(v, LScale)

\* One pass of the loop (lines 2427-2454) at age a, k years from the start,
\* with no event this year, from the locals prev of the pass before.
NoEventStep(prev, a, k) ==
    [income |-> NextIncome(prev.income, prev.net_worth, a, retirement_age, k),
     net_worth |-> MulDiv(prev.net_worth, 100 + InvestmentReturn(a), 100)
                      + NextIncome(prev.income, prev.net_worth, a, retirement_age, k)
                      - Inflated(monthly_expenses * 12 * LScale, k),
     savings |-> NextIncome(prev.income, prev.net_worth, a, retirement_age, k)
                    - Inflated(monthly_expenses * 12 * LScale, k)]

\* The locals before the loop (lines 2408-2409), the same with and without
\* events.
LocalsBeforeLoop ==
    [income |-> current_income * LScale,
     net_worth |-> current_savings * LScale,
     savings |-> 0]

\* A call of run_life_simulation leaves the other simulators alone.
LP_Frame == UNCHANGED <<cfvars, dpvars, gpvars>>

LP_Init ==
    /\ CF_Idle
    /\ DP_Idle
    /\ GP_Idle
    /\ lp_pc = "start"
    /\ \E ages \in AgePairs : current_age = ages[1] /\ retirement_age = ages[2]
    /\ current_income \in CurrentIncomes
    /\ current_savings \in CurrentSavings
    /\ monthly_expenses \in MonthlyExpenses
    /\ selected_events \in EventLists
    /\ results = <<>>
    /\ net_worth = 0
    /\ income = 0
    /\ annual_expenses = 0
    /\ first_negative_year = NoAge
    /\ peak_net_worth = 0
    /\ peak_year = 0
    /\ age = 0
    /\ year_locals = <<>>
    /\ no_event_locals = <<>>
    /\ lp_result = NoResult

\* Lines 2407-2421: the locals before the loop.
LP_Start ==
    /\ lp_pc = "start"
    /\ LP_Frame
    /\ results' = <<>>
    /\ net_worth' = current_savings * LScale
    /\ income' = current_income * LScale
    /\ annual_expenses' = monthly_expenses * 12
    /\ first_negative_year' = NoAge
    /\ peak_net_worth' = current_savings * LScale
    /\ peak_year' = current_age
    /\ age' = current_age
    /\ lp_pc' = "loop"
    /\ UNCHANGED <<current_age, retirement_age, current_income, current_savings,
                   monthly_expenses, selected_events, year_locals,
                   no_event_locals, lp_result>>

\* Lines 2421-2478: one simulated year.
LP_Year ==
    /\ lp_pc = "loop"
    /\ LP_Frame
    /\ age < retirement_age + HorizonPastRetirement
    /\ LET events_this_year == EventsThisYear(selected_events, age)
           event_costs == SumCosts(events_this_year) * LScale
           years_from_start == age - current_age
           new_income == NextIncome(income, net_worth, age, retirement_age,
                                    years_from_start)
           adjusted_expenses == Inflated(annual_expenses * LScale, years_from_start)
           savings == new_income - adjusted_expenses - event_costs
           new_net_worth == MulDiv(net_worth, 100 + InvestmentReturn(age), 100)
                                + savings
           status == YearStatus(new_net_worth, savings)
       IN  /\ income' = new_income
           /\ net_worth' = new_net_worth
           /\ IF new_net_worth > peak_net_worth
              THEN peak_net_worth' = new_net_worth /\ peak_year' = age
              ELSE UNCHANGED <<peak_net_worth, peak_year>>
           /\ first_negative_year' =
                 IF new_net_worth < 0 /\ first_negative_year = NoAge
                 THEN age ELSE first_negative_year
           /\ results' = Append(results,
                 [year |-> BaseYear + (age - current_age),
                  age |-> age,
                  netWorth |-> RoundUnits(new_net_worth),
                  income |-> RoundUnits(new_income),
                  expenses |-> RoundUnits(adjusted_expenses + event_costs),
                  savings |-> RoundUnits(savings),
                  events |-> [i \in 1..Len(events_this_year) |->
                                 events_this_year[i].name],
                  status |-> status])
           /\ no_event_locals' = Append(no_event_locals,
                 NoEventStep(IF no_event_locals = <<>> THEN LocalsBeforeLoop
                             ELSE no_event_locals[Len(no_event_locals)],
                             age, years_from_start))
           /\ year_locals' = Append(year_locals,
                 [age |-> age,
                  event_costs |-> event_costs,
                  income |-> new_income,
                  adjusted_expenses |-> adjusted_expenses,
                  savings |-> savings,
                  net_worth |-> new_net_worth])
    /\ age' = age + 1
    /\ UNCHANGED <<lp_pc, current_age, retirement_age, current_income,
                   current_savings, monthly_expenses, selected_events,
                   annual_expenses, lp_result>>

\* LP_LoopEnd leaving the loop as soon as the retirement age is passed.
LP_LoopEnd_PastRetirement ==
    /\ lp_pc = "loop"
    /\ LP_Frame
    /\ age > retirement_age
    /\ lp_pc' = "summary"
    /\ UNCHANGED <<current_age, retirement_age, current_income, current_savings,
                   monthly_expenses, selected_events, results, net_worth, income,
                   annual_expenses, first_negative_year, peak_net_worth, peak_year,
                   age, year_locals, no_event_locals, lp_result>>

\* The range of line 2421 is exhausted.
LP_LoopEnd ==
    /\ lp_pc = "loop"
    /\ LP_Frame
    /\ ~(age < retirement_age + HorizonPastRetirement)
    /\ lp_pc' = "summary"
    /\ UNCHANGED <<current_age, retirement_age, current_income, current_savings,
                   monthly_expenses, selected_events, results, net_worth, income,
                   annual_expenses, first_negative_year, peak_net_worth, peak_year,
                   age, year_locals, no_event_locals, lp_result>>

\* Line 2480: the record of the retirement age, or the last record.
RetirementResult(res, ret_age) ==
    IF \E i \in 1..Len(res) : res[i].age = ret_age
    THEN res[CHOOSE i \in 1..Len(res) :
                 /\ res[i].age = ret_age
                 /\ \A j \in 1..Len(res) : res[j].age = ret_age => i <= j]
    ELSE res[Len(res)]

\* Line 2411, rounded to one decimal as in the summary: tenths of a percent.
SavingsRate(inc, expenses) ==
    IF inc > 0 THEN RoundHalfEven((inc - expenses) * 1000, inc) ELSE 0

\* Lines 2668-2677: the presentation bands.
OptimisticNetWorth(nw) == RoundHalfEven(nw * 13, 10)
PessimisticNetWorth(nw) == RoundHalfEven(nw * 6, 10)

\* Lines 2480-2487 and 2654-2679 with at least one year record.
LP_Summary ==
    /\ lp_pc = "summary"
    /\ LP_Frame
    /\ results # <<>>
    /\ LET retirement_result == RetirementResult(results, retirement_age)
       IN  lp_result' =
             [kind |-> "simulation",
              results |-> results,
              summary |->
                [retirementNetWorth |-> retirement_result.netWorth,
                 totalEventCosts |-> SumCosts(selected_events),
                 eventsCount |-> Len(selected_events),
                 isOnTrack |-> \A i \in 1..Len(results) :
                                   results[i].status # "negative",
                 yearsOfExpenses |->
                     IF annual_expenses > 0
                     THEN RoundHalfEven(retirement_result.netWorth, annual_expenses)
                     ELSE 0,
                 peakNetWorth |-> RoundUnits(peak_net_worth),
                 peakAge |-> peak_year,
                 finalNetWorth |-> results[Len(results)].netWorth,
                 savingsRate |-> SavingsRate(current_income, annual_expenses)],
              scenarios |->
                [optimistic |-> OptimisticNetWorth(retirement_result.netWorth),
                 pessimistic |-> PessimisticNetWorth(retirement_result.netWorth)]]
    /\ lp_pc' = "done"
    /\ UNCHANGED <<current_age, retirement_age, current_income, current_savings,
                   monthly_expenses, selected_events, results, net_worth, income,
                   annual_expenses, first_negative_year, peak_net_worth, peak_year,
                   age, year_locals, no_event_locals>>

\* Line 2480 with no year record: results[-1] raises IndexError, which nothing
\* in the handler catches.
LP_Raise ==
    /\ lp_pc = "summary"
    /\ LP_Frame
    /\ results = <<>>
    /\ lp_pc' = "raised"
    /\ UNCHANGED <<current_age, retirement_age, current_income, current_savings,
                   monthly_expenses, selected_events, results, net_worth, income,
                   annual_expenses, first_negative_year, peak_net_worth, peak_year,
                   age, year_locals, no_event_locals, lp_result>>

LP_Next == LP_Start \/ LP_Year \/ LP_LoopEnd \/ LP_Summary \/ LP_Raise

SpecLife == LP_Init /\ [][LP_Next]_vars

(***************************************************************************)
(* Any one call of any of the four simulators                              *)
(***************************************************************************)

Init == CF_Init \/ DP_Init \/ GP_Init \/ LP_Init

Next == CF_Next \/ DP_Next \/ GP_Next \/ LP_Next

Spec == Init /\ [][Next]_vars

(***************************************************************************)
(* Cash-Flow Scheduler: claims                                             *)
(***************************************************************************)

\* The inflows of the call dated on or before d.
InflowsUpTo(d) == SelectSeq(cf_income, LAMBDA i : i.date <= d)

LastEntry == schedule[Len(schedule)]

\* C1: when a bill is about to be evaluated, the running balance has been
\* credited, over the walk so far, with exactly the full amount of every
\* inflow dated on or before the bill's due date: each such inflow once, none
\* skipped, also when several inflows carry the same date.
C1_EveryInflowCreditedOnce ==
    cf_pc = "classify" =>
        credited = SumAmounts(InflowsUpTo(bills[bill_idx].due_date))

\* C2 as stated: balance_after = balance_before - amount; PAY_ON_TIME exactly
\* when balance_after >= floor, PAY_WITH_CAUTION exactly when
\* 0 <= balance_after < floor, DELAY_NEEDED exactly when balance_after < 0.
C2_StatusExactlyAsStated ==
    cf_pc = "advance" =>
        /\ balance_after = balance - LastEntry.amount
        /\ LastEntry.status = "PAY_ON_TIME" <=> balance_after >= minimum_balance
        /\ LastEntry.status = "PAY_WITH_CAUTION" <=>
              (0 <= balance_after /\ balance_after < minimum_balance)
        /\ LastEntry.status = "DELAY_NEEDED" <=> balance_after < 0

\* C2 (amended): balance_after = balance_before - amount; PAY_ON_TIME exactly
\* when balance_after >= floor (equality included), PAY_WITH_CAUTION exactly
\* when 0 <= balance_after < floor, DELAY_NEEDED exactly when balance_after is
\* below both zero and the floor.
C2_StatusMatchesThresholds ==
    cf_pc = "advance" =>
        /\ balance_after = balance - LastEntry.amount
        /\ LastEntry.status = "PAY_ON_TIME" <=> balance_after >= minimum_balance
        /\ LastEntry.status = "PAY_WITH_CAUTION" <=>
              (0 <= balance_after /\ balance_after < minimum_balance)
        /\ LastEntry.status = "DELAY_NEEDED" <=>
              (balance_after < 0 /\ balance_after < minimum_balance)

\* A bill whose balance_after lands exactly on a positive floor, after an
\* inflow was credited for it.
C2_Witness ==
    /\ cf_pc = "advance"
    /\ credited > 0
    /\ minimum_balance > 0
    /\ balance_after = minimum_balance
    /\ LastEntry.status = "PAY_ON_TIME"

\* C3 as stated: the balance_after of every schedule entry is never negative.
C3_ReportedBalanceNeverNegative ==
    \A i \in 1..Len(schedule) : schedule[i].balance_after >= 0

\* C3 (amended): the running balance carried from one bill to the next is
\* never negative; the balance_after a schedule entry reports is not clamped,
\* and under a floor >= 0 it is negative only for a DELAY_NEEDED bill.
C3_RunningBalanceNeverNegative ==
    /\ balance >= 0
    /\ minimum_balance >= 0 =>
          \A i \in 1..Len(schedule) :
              schedule[i].balance_after < 0 => schedule[i].status = "DELAY_NEEDED"

\* A bill was delayed with a negative reported balance_after and the walk went
\* on from a balance of zero.
C3_Witness ==
    /\ cf_pc \in {"inflows", "finish"}
    /\ schedule # <<>>
    /\ LastEntry.balance_after < 0
    /\ balance = 0

(***************************************************************************)
(* Amortization Simulator: claims                                          *)
(***************************************************************************)

\* C4: a budget strictly below the sum of the minimum payments simulates no
\* period and returns the infeasibility result, which reports the minimum
\* required and the amount provided and holds no payoff schedule; a budget
\* equal to or above the sum runs the simulation and returns a plan.
C4_InfeasibleBudgetReported ==
    /\ dp_pc = "loop" => monthly_debt_budget >= SumMinPayments(debt_list)
    /\ dp_pc = "done" =>
          IF monthly_debt_budget < SumMinPayments(debt_list)
          THEN /\ dp_result.kind = "error"
               /\ dp_result.minimum_required = SumMinPayments(debt_list)
               /\ dp_result.provided = monthly_debt_budget
               /\ dp_result.minimum_required - dp_result.provided > 0
               /\ "payoff_order" \notin DOMAIN dp_result
               /\ month = 0
               /\ payoff_order = <<>>
          ELSE /\ dp_result.kind = "plan"
               /\ debt_list # <<>> => month >= 1

\* An infeasible call has returned.
C4_Witness ==
    /\ dp_pc = "done"
    /\ dp_result.kind = "error"
    /\ monthly_debt_budget < SumMinPayments(debt_list)

Perms(n) == {f \in [1..n -> 1..n] : \A i, j \in 1..n : f[i] = f[j] => i = j}

\* C5: the payment priority is a rearrangement of the input debts, by
\* descending interest rate under avalanche and by ascending balance under
\* snowball, in which two debts of equal key keep their input order; the
\* returned payment_priority names the debts in that order.
C5_PriorityOrderStable ==
    dp_pc # "start" =>
        /\ \E perm \in Perms(Len(debt_list)) :
              /\ Len(sorted_debts) = Len(debt_list)
              /\ \A p \in 1..Len(debt_list) : sorted_debts[p] = debt_list[perm[p]]
              /\ \A p, q \in 1..Len(debt_list) : p < q =>
                    LET a == debt_list[perm[p]]
                        b == debt_list[perm[q]]
                    IN  IF strategy = "avalanche"
                        THEN \/ a.interest_rate > b.interest_rate
                             \/ a.interest_rate = b.interest_rate /\ perm[p] < perm[q]
                        ELSE \/ a.balance < b.balance
                             \/ a.balance = b.balance /\ perm[p] < perm[q]
        /\ (dp_pc = "done" /\ dp_result.kind = "plan") =>
              dp_result.payment_priority = Names(sorted_debts)

\* A plan was returned for two differently named debts with the same sort key.
C5_Witness ==
    /\ dp_pc = "done"
    /\ dp_result.kind = "plan"
    /\ Len(debt_list) = 2
    /\ debt_list[1].name # debt_list[2].name
    /\ IF strategy = "avalanche"
       THEN debt_list[1].interest_rate = debt_list[2].interest_rate
       ELSE debt_list[1].balance = debt_list[2].balance

\* C6: every step taken inside the period loop either leaves the loop or
\* counts one more period without passing 120, so the loop ends after at most
\* 120 periods, also for a debt that never amortizes; the period count in the
\* returned plan never exceeds 120.
C6_LoopEndsWithinCap ==
    [][/\ dp_pc = "loop" =>
              \/ dp_pc' = "done"
              \/ dp_pc' = "loop" /\ month' = month + 1 /\ month' <= MaxMonths
       /\ (dp_pc' = "done" /\ dp_result'.kind = "plan") =>
              dp_result'.total_months_to_debt_free.months <= MaxMonths]_vars

\* The 120th period has been simulated and a debt that does not amortize (its
\* balance is not below what it was in the input) is still active.
C6_Witness ==
    /\ dp_pc = "loop"
    /\ month = MaxMonths
    /\ \E i \in 1..Len(remaining_debts) : \E j \in 1..Len(debt_list) :
          /\ remaining_debts[i].name = debt_list[j].name
          /\ remaining_debts[i].balance >= debt_list[j].balance

C8_ScenariosOrdered ==
    gp_pc \in {"gains", "projection", "done"} =>
        /\ scenarios["worst_case"].final_value <= scenarios["base_case"].final_value
        /\ scenarios["base_case"].final_value <= scenarios["best_case"].final_value

\* C9: the scenarios use the rates rate - 4, rate and rate + 4, each of the
\* three floored at 6.
C9_EveryRateFloored ==
    gp_pc \in {"gains", "projection", "done"} =>
        /\ scenarios["worst_case"].return_rate =
              Max2(MinReturn, expected_return - ReturnSpread)
        /\ scenarios["base_case"].return_rate = Max2(MinReturn, expected_return)
        /\ scenarios["best_case"].return_rate =
              Max2(MinReturn, expected_return + ReturnSpread)

(***************************************************************************)
(* Multi-Decade Life Projector: claims                                     *)
(***************************************************************************)

\* The year records in which the event named i was applied.
YearsApplied(i) ==
    {k \in 1..Len(results) :
        \E j \in 1..Len(results[k].events) : results[k].events[j] = i}

\* The event-cost term of every simulated year is the sum of the costs of the
\* events whose trigger equals the age of that year.
EventCostTermsMatch ==
    \A k \in 1..Len(year_locals) :
        /\ year_locals[k].age = results[k].age
        /\ year_locals[k].event_costs =
              LScale * SumCosts(SelectSeq(selected_events,
                                          LAMBDA ev : ev.year = year_locals[k].age))

\* C10 as stated: when a simulation has returned, every selected event,
\* whatever its trigger, was applied in exactly one simulated year, the year
\* whose age equals the trigger.
C10_EveryEventAppliedOnce ==
    lp_pc = "done" =>
        \A i \in 1..Len(selected_events) :
            /\ Cardinality(YearsApplied(i)) = 1
            /\ \A k \in YearsApplied(i) : results[k].age = selected_events[i].year

\* C10 (amended): an event whose trigger lies in the simulated ages
\* current_age .. retirement_age + 10 is applied exactly once, in the year
\* whose age equals the trigger, and its cost is in the event-cost term of
\* that year and of no other; an event whose trigger lies outside these ages
\* is never applied.
C10_EventInRangeAppliedOnce ==
    /\ EventCostTermsMatch
    /\ lp_pc \in {"summary", "done", "raised"} =>
          \A i \in 1..Len(selected_events) :
              /\ \A k \in YearsApplied(i) : results[k].age = selected_events[i].year
              /\ Cardinality(YearsApplied(i)) =
                    IF /\ current_age <= selected_events[i].year
                       /\ selected_events[i].year <= retirement_age + 10
                    THEN 1 ELSE 0

\* A run has ended in which one event was applied and another, whose trigger
\* lies past the last simulated age, was not.
C10_Witness ==
    /\ lp_pc = "done"
    /\ \E i, j \in 1..Len(selected_events) :
          /\ YearsApplied(i) # {}
          /\ \A k \in YearsApplied(i) : year_locals[k].event_costs # 0
          /\ YearsApplied(j) = {}
          /\ selected_events[j].year > retirement_age + 10

\* The locals after pass k of the loop of the same request run with no
\* selected events.
NoEventYears(k) == no_event_locals[k]

\* The net-savings term of pass k minus that of the run with no events.
SavingsDifference(k) == year_locals[k].savings - NoEventYears(k).savings

\* The income of pass k minus that of the run with no events.
IncomeDifference(k) == year_locals[k].income - NoEventYears(k).income

\* C11 as stated: with one selected event of cost C at trigger age A, the
\* net-savings term differs from that of the run with no events by exactly -C
\* in the year of age A and by nothing in every other simulated year, the
\* years at and after retirement included.
C11_OnlyTriggerYearDiffers ==
    (lp_pc = "done" /\ Len(selected_events) = 1) =>
        \A k \in 1..Len(year_locals) :
            SavingsDifference(k) =
                IF year_locals[k].age = selected_events[1].year
                THEN - selected_events[1].cost * LScale ELSE 0

\* C11 (amended): with one selected event of cost C at trigger age A, the
\* net-savings term of the year of age A differs from that of the run with no
\* events by -C and by the difference of the two incomes, and that of every
\* other year by the difference of the two incomes alone; the incomes are the
\* same in every year before the retirement age, and in every year at all
\* when A is not below the retirement age or not a simulated age.  (When A is
\* a simulated age below the retirement age, the income fixed at the
\* retirement transition is 4% of a net worth that carries the event, so the
\* years from retirement on differ.)
C11_TriggerYearAndRetirementIncomeDiffer ==
    (lp_pc = "done" /\ Len(selected_events) = 1) =>
        \A k \in 1..Len(year_locals) :
            /\ SavingsDifference(k) =
                  IncomeDifference(k) -
                  (IF year_locals[k].age = selected_events[1].year
                   THEN selected_events[1].cost * LScale ELSE 0)
            /\ (\/ year_locals[k].age < retirement_age
                \/ selected_events[1].year >= retirement_age
                \/ selected_events[1].year < current_age)
                  => IncomeDifference(k) = 0

\* A run with one event applied in a working year has returned, and the
\* net-savings terms from retirement on differ from the run with no events.
C11_Witness ==
    /\ lp_pc = "done"
    /\ Len(selected_events) = 1
    /\ \E k, m \in 1..Len(year_locals) :
          /\ year_locals[k].age = selected_events[1].year
          /\ SavingsDifference(k) = - selected_events[1].cost * LScale
          /\ year_locals[m].age > retirement_age
          /\ year_locals[m].age # selected_events[1].year
          /\ SavingsDifference(m) # 0

\* The number of steps a call of run_life_simulation has yet to take: the
\* passes of the loop that remain, then the end of the loop and the summary.
StepsLeft ==
    CASE lp_pc = "start" -> Max0(retirement_age + HorizonPastRetirement - current_age) + 3
      [] lp_pc = "loop" -> Max0(retirement_age + HorizonPastRetirement - age) + 2
      [] lp_pc = "summary" -> 1
      [] OTHER -> 0

\* The year trace holds exactly retirement_age - current_age + 11 records, the
\* k-th of age current_age + k - 1 and of calendar year 2025 + k - 1.
TraceCoversEveryAge ==
    /\ Len(results) = retirement_age - current_age + 11
    /\ \A k \in 1..Len(results) :
          /\ results[k].age = current_age + k - 1
          /\ results[k].year = BaseYear + k - 1
    /\ results[Len(results)].age = retirement_age + 10

\* C12: in a call with retirement_age > current_age every step lowers the
\* number of steps left, which is never negative, so the loop and the call
\* end; and once the loop has ended the year trace holds exactly
\* retirement_age - current_age + 11 records, one per age, the ages running
\* without a gap from current_age through retirement_age + 10 and the
\* calendar years rising by one per record.
C12_TraceCoversEveryAge ==
    [][retirement_age > current_age =>
          /\ StepsLeft' < StepsLeft
          /\ StepsLeft' >= 0
          /\ lp_pc' # "raised"
          /\ lp_pc' \in {"summary", "done"} => TraceCoversEveryAge'
          /\ lp_pc' = "done" => lp_result'.results = results']_vars

\* A call with retirement_age > current_age has returned with the full trace.
C12_Witness ==
    /\ lp_pc = "done"
    /\ retirement_age > current_age
    /\ Len(lp_result.results) = retirement_age - current_age + 11
    /\ lp_result.results[1].age = current_age

\* C13: a call with retirement_age <= current_age never ends in an exception,
\* and what it returns carries an explicit feasibility flag.
C13_InfeasibleAgesFlagged ==
    retirement_age <= current_age =>
        /\ lp_pc # "raised"
        /\ lp_pc = "done" =>
              \/ "feasible" \in DOMAIN lp_result
              \/ "feasible" \in DOMAIN lp_result.summary

(***************************************************************************)
(* Compounding Growth Projector: further claims                            *)
(***************************************************************************)

\* C14: a call with a well-formed plan (monthly contribution >= 0, years > 0,
\* lump sum >= 0), the plan with nothing invested included, never ends in an
\* unhandled fault, and every scenario it returns has a gain and a gain
\* percent.
C14_EveryPlanYieldsResult ==
    (monthly_sip >= 0 /\ investment_years > 0 /\ initial_investment >= 0) =>
        /\ gp_pc # "raised"
        /\ gp_pc = "done" =>
              \A n \in DOMAIN gp_result.scenarios :
                  {"total_gain", "gain_percent"} \subseteq DOMAIN gp_result.scenarios[n]

(***************************************************************************)
(* Amortization Simulator: further claims                                  *)
(***************************************************************************)

\* Line 220: the balance a debt holds after its minimum payment, on which
\* line 222 computes the interest.
BalanceAfterMinPayment(d) == d.balance - d.min_payment

\* The debts as held after the for loop of lines 218-223 of the period about
\* to run.
HeldAfterInterest == [i \in 1..Len(remaining_debts) |->
                         MinThenInterest(remaining_debts[i])]

\* The debts as held after line 227 of the period about to run, before the
\* paid ones are removed.
HeldAfterExtra == ApplyExtra(HeldAfterInterest, extra_payment)

\* C15: no balance the simulator holds is below zero: not between periods,
\* not after the interest of line 223, not after the extra of line 227 (the
\* step that pays a debt off leaves it at 0); and a balance that is negative
\* after the minimum payment accrues no interest.
C15_BalanceNeverNegative ==
    /\ \A i \in 1..Len(remaining_debts) : remaining_debts[i].balance >= 0
    /\ (dp_pc = "loop" /\ LoopContinues(remaining_debts, month)) =>
          \A i \in 1..Len(remaining_debts) :
              /\ HeldAfterInterest[i].balance >= 0
              /\ HeldAfterExtra[i].balance >= 0
              /\ BalanceAfterMinPayment(remaining_debts[i]) < 0 =>
                    MonthlyInterest(BalanceAfterMinPayment(remaining_debts[i]),
                                    remaining_debts[i].interest_rate) = 0

\* The largest extra payment a run is compared with.
MaxExtra == 5

RECURSIVE PeriodsToPayoff(_, _, _)
\* The loop of lines 214-237 for the single debt d with m periods done and the
\* extra payment extra: the period in which d is paid off, or MaxMonths + 1
\* when the loop ends at the cap with d still open.  A period that leaves d as
\* it was is followed by periods that do the same, up to the cap.
PeriodsToPayoff(d, extra, m) ==
    IF ~LoopContinues(<<d>>, m) THEN MaxMonths + 1
    ELSE LET rem == SelectSeq(ApplyExtra(<<MinThenInterest(d)>>, extra), IsActive)
         IN  IF rem = <<>> THEN m + 1
             ELSE IF rem = <<d>> THEN MaxMonths + 1
             ELSE PeriodsToPayoff(rem[1], extra, m + 1)

\* The number of periods a returned plan reports, ">120" counting as 121.
ReportedPeriods ==
    IF dp_result.total_months_to_debt_free.prefix = ">"
    THEN dp_result.total_months_to_debt_free.months + 1
    ELSE dp_result.total_months_to_debt_free.months

\* C16: when a plan for a single debt has been returned, the plan for the
\* same debt with any larger extra payment takes no more periods (a plan that
\* ends at the cap with the debt open counting as 121 periods).
C16_MoreExtraNeverSlower ==
    (dp_pc = "done" /\ dp_result.kind = "plan" /\ Len(debt_list) = 1) =>
        /\ ReportedPeriods = PeriodsToPayoff(debt_list[1], extra_payment, 0)
        /\ \A e1, e2 \in extra_payment..MaxExtra :
              e1 <= e2 => PeriodsToPayoff(debt_list[1], e2, 0)
                             <= PeriodsToPayoff(debt_list[1], e1, 0)

\* A plan for a single debt that takes more than one period has been
\* returned, and a larger extra payment makes it strictly shorter.
C16_Witness ==
    /\ dp_pc = "done"
    /\ dp_result.kind = "plan"
    /\ Len(debt_list) = 1
    /\ ReportedPeriods > 1
    /\ ReportedPeriods <= MaxMonths
    /\ \E e2 \in (extra_payment + 1)..MaxExtra :
          PeriodsToPayoff(debt_list[1], e2, 0) < ReportedPeriods

RECURSIVE LoopOutcome(_, _, _, _, _)
\* The loop of lines 214-237 run to its end from the debts rem still open, m
\* periods done and the payoff records order, for the supplied list dl and
\* the extra payment extra.  A period that leaves the open debts as they were
\* is followed by periods that do the same, up to the cap.
LoopOutcome(rem, m, order, dl, extra) ==
    IF ~LoopContinues(rem, m)
    THEN [remaining_debts |-> rem, month |-> m, payoff_order |-> order]
    ELSE LET after_extra ==
                 ApplyExtra([i \in 1..Len(rem) |-> MinThenInterest(rem[i])], extra)
         IN  IF SelectSeq(after_extra, IsActive) = rem
             THEN [remaining_debts |-> rem, month |-> MaxMonths,
                   payoff_order |-> order]
             ELSE LoopOutcome(SelectSeq(after_extra, IsActive), m + 1,
                              order \o PayoffRecords(after_extra, dl, m + 1),
                              dl, extra)

\* What lines 190-248 return for the list dl, the budget and the strategy.
PlanOf(dl, budget, strat) ==
    IF Infeasible(budget - SumMinPayments(dl))
    THEN [kind |-> "error",
          error |-> "Monthly budget is less than minimum payments required",
          minimum_required |-> SumMinPayments(dl),
          provided |-> budget]
    ELSE LET out == LoopOutcome(SortedDebts(dl, strat), 0, <<>>, dl,
                                budget - SumMinPayments(dl))
         IN  [kind |-> "plan",
              strategy |-> strat,
              total_debt |-> SumBalances(dl),
              monthly_budget |-> budget,
              extra_payment_available |-> budget - SumMinPayments(dl),
              payoff_order |-> out.payoff_order,
              total_months_to_debt_free |-> TotalMonths(out.remaining_debts, out.month),
              payment_priority |-> Names(SortedDebts(dl, strat))]

\* C17: no step of a call changes the caller's debt list (the records, their
\* names, balances, rates and minimum payments, and their order), the budget
\* or the strategy, and what the call returns is a function of these three
\* alone; so a second call on the same list with the same budget and strategy
\* returns the same payoff schedule and month count.
C17_CallerListUnchanged ==
    [][/\ debt_list' = debt_list
       /\ monthly_debt_budget' = monthly_debt_budget
       /\ strategy' = strategy
       /\ dp_pc' = "done" =>
             dp_result' = PlanOf(debt_list', monthly_debt_budget', strategy')]_vars

\* A plan has been returned after periods in which the balances held by the
\* loop were written and a debt was paid off.
C17_Witness ==
    /\ dp_pc = "done"
    /\ dp_result.kind = "plan"
    /\ Len(debt_list) = 2
    /\ month >= 2
    /\ payoff_order # <<>>
    /\ dp_result = PlanOf(debt_list, monthly_debt_budget, strategy)

\* C18: a call whose list holds a debt with a negative balance or a negative
\* rate simulates no period and records no payoff, and what it returns is an
\* error, not a plan.
C18_MalformedDebtRejected ==
    (\E i \in 1..Len(debt_list) :
        debt_list[i].balance < 0 \/ debt_list[i].interest_rate < 0) =>
        /\ month = 0
        /\ payoff_order = <<>>
        /\ dp_pc = "done" => dp_result.kind = "error"

\* The balance the i-th open debt has at the end of a period: the balance less
\* the minimum payment, plus a twelfth of the annual rate on that difference,
\* and, for the first open debt only, less the whole extra payment.
BalanceAtPeriodEnd(i) ==
    LET afterMin == remaining_debts[i].balance - remaining_debts[i].min_payment
        interest == (afterMin * remaining_debts[i].interest_rate) \div (100 * 12)
    IN  Sat(afterMin + interest) - (IF i = 1 THEN extra_payment ELSE 0)

\* The positions of the debts still open at the end of a period.
OpenAtPeriodEnd == {i \in 1..Len(remaining_debts) : BalanceAtPeriodEnd(i) > 0}

\* C20: a period leaves every open debt with its balance less the minimum
\* payment plus the interest at rate/12 on that difference, and takes the
\* whole extra payment from the first open debt in strategy order and from no
\* other; the debts this leaves above zero stay open, in the same order, and
\* the others are recorded as paid off in this period.
C20_PeriodOrder ==
    [][month' = month + 1 =>
          /\ Len(remaining_debts') = Cardinality(OpenAtPeriodEnd)
          /\ \A i \in OpenAtPeriodEnd :
                LET pos == Cardinality({j \in OpenAtPeriodEnd : j <= i})
                IN  remaining_debts'[pos] =
                        [remaining_debts[i] EXCEPT !.balance = BalanceAtPeriodEnd(i)]
          /\ Len(payoff_order') =
                Len(payoff_order) + Len(remaining_debts) - Cardinality(OpenAtPeriodEnd)
          /\ \A k \in (Len(payoff_order) + 1)..Len(payoff_order') :
                payoff_order'[k].payoff_month = month + 1]_vars

\* A period has run on two debts, one of them at a positive rate, with an
\* extra payment, and both are still open.
C20_Witness ==
    /\ dp_pc = "loop"
    /\ month >= 1
    /\ extra_payment > 0
    /\ Len(remaining_debts) = 2
    /\ remaining_debts[1].interest_rate > 0
    /\ remaining_debts[1].balance < remaining_debts[2].balance

(***************************************************************************)
(* Cash-Flow Scheduler: further claims                                     *)
(***************************************************************************)

\* The dates of the inflows of a positive amount dated strictly after d.
LaterInflowDates(d) ==
    {cf_income[i].date : i \in {j \in 1..Len(cf_income) :
                                   cf_income[j].amount > 0 /\ cf_income[j].date > d}}

\* C19: every schedule entry of a delay-needed bill recommends the earliest
\* date, strictly after the due date, on which an inflow (of a positive
\* amount) arrives, or the due date when there is no such inflow; every other
\* entry recommends the due date; so no entry recommends a date before the
\* due date.
C19_DelayedToNextInflow ==
    \A k \in 1..Len(schedule) :
        /\ schedule[k].recommended_pay_date >= schedule[k].due_date
        /\ schedule[k].status # "DELAY_NEEDED" =>
              schedule[k].recommended_pay_date = schedule[k].due_date
        /\ schedule[k].status = "DELAY_NEEDED" =>
              IF LaterInflowDates(schedule[k].due_date) = {}
              THEN schedule[k].recommended_pay_date = schedule[k].due_date
              ELSE /\ schedule[k].recommended_pay_date
                         \in LaterInflowDates(schedule[k].due_date)
                   /\ \A d \in LaterInflowDates(schedule[k].due_date) :
                         schedule[k].recommended_pay_date <= d

(***************************************************************************)
(* Amortization Simulator: payoff records and the extra payment            *)
(***************************************************************************)

\* The ways of giving every payoff record a debt of the supplied list of its
\* own: no two records the same debt.
RecordOwners ==
    {f \in [1..Len(payoff_order) -> 1..Len(debt_list)] :
        \A i, j \in 1..Len(payoff_order) : f[i] = f[j] => i = j}

\* C21: every debt paid off has a payoff record of its own, of a period that
\* has run, that names it and gives the balance this debt had in the supplied
\* list, also when two debts of the list share a name.
C21_PayoffRecordPerDebt ==
    /\ \A k \in 1..Len(payoff_order) :
          payoff_order[k].payoff_month \in 1..month
    /\ \E f \in RecordOwners :
          \A k \in 1..Len(payoff_order) :
              /\ debt_list[f[k]].name = payoff_order[k].name
              /\ debt_list[f[k]].balance = payoff_order[k].original_balance

\* ceil(a / b) for a >= 0 and b > 0.
CeilDiv(a, b) == (a + b - 1) \div b

\* What the i-th open debt loses in a period at a zero rate: its minimum
\* payment and, when it is the focus, the extra payment.
LinearLoss(i) ==
    remaining_debts[i].min_payment + (IF i = 1 THEN extra_payment ELSE 0)

\* C22: at a zero rate a period takes from the focus debt exactly its minimum
\* payment plus the extra, and from every other open debt exactly its minimum
\* payment; and a plan for a single zero-rate debt of balance P reports
\* ceil(P / (m + e)) periods.
C22_ZeroRateIsLinear ==
    [][/\ month' = month + 1 =>
             \A i \in 1..Len(remaining_debts) :
                 remaining_debts[i].interest_rate = 0 =>
                     IF remaining_debts[i].balance - LinearLoss(i) > 0
                     THEN \E j \in 1..Len(remaining_debts') :
                              /\ j <= i
                              /\ remaining_debts'[j] =
                                    [remaining_debts[i] EXCEPT
                                        !.balance = remaining_debts[i].balance
                                                       - LinearLoss(i)]
                     ELSE \E k \in (Len(payoff_order) + 1)..Len(payoff_order') :
                              /\ payoff_order'[k].name = remaining_debts[i].name
                              /\ payoff_order'[k].payoff_month = month + 1
       /\ (/\ dp_pc' = "done"
           /\ dp_result'.kind = "plan"
           /\ Len(debt_list) = 1
           /\ debt_list[1].interest_rate = 0
           /\ debt_list[1].balance > 0) =>
             dp_result'.total_months_to_debt_free =
                 [prefix |-> "",
                  months |-> CeilDiv(debt_list[1].balance,
                                     debt_list[1].min_payment + extra_payment)]]_vars

\* A plan of several periods for a single zero-rate debt with an extra payment
\* has been returned.
C22_Witness ==
    /\ dp_pc = "done"
    /\ dp_result.kind = "plan"
    /\ Len(debt_list) = 1
    /\ debt_list[1].interest_rate = 0
    /\ extra_payment > 0
    /\ dp_result.total_months_to_debt_free.months = 2
    /\ debt_list[1].balance < 2 * (debt_list[1].min_payment + extra_payment)

\* How many records of the sequence s have the name n.
CountNamed(s, n) == Cardinality({i \in 1..Len(s) : s[i].name = n})

\* C27: while a plan is worked out and when it is returned, the debts of every
\* name are split between those with a payoff record and those still open,
\* none in both and none in neither, so there is at most one record per input
\* debt; the records are in non-decreasing payoff period; and when no debt is
\* left open the plan reports the largest payoff period as the number of
\* months, 0 for an empty list.
C27_RecordsPartitionDebts ==
    /\ (dp_pc = "loop" \/ (dp_pc = "done" /\ dp_result.kind = "plan")) =>
          /\ \A n \in DebtNames :
                CountNamed(payoff_order, n) + CountNamed(remaining_debts, n)
                    = CountNamed(debt_list, n)
          /\ Len(payoff_order) + Len(remaining_debts) = Len(debt_list)
          /\ \A k \in 1..(Len(payoff_order) - 1) :
                payoff_order[k].payoff_month <= payoff_order[k + 1].payoff_month
    /\ (dp_pc = "done" /\ dp_result.kind = "plan" /\ remaining_debts = <<>>) =>
          /\ dp_result.payoff_order = payoff_order
          /\ dp_result.total_months_to_debt_free.prefix = ""
          /\ \A k \in 1..Len(payoff_order) :
                payoff_order[k].payoff_month
                    <= dp_result.total_months_to_debt_free.months
          /\ dp_result.total_months_to_debt_free.months =
                IF payoff_order = <<>> THEN 0
                ELSE payoff_order[Len(payoff_order)].payoff_month

\* A plan has been returned with two debts paid off in different periods.
C27_Witness ==
    /\ dp_pc = "done"
    /\ dp_result.kind = "plan"
    /\ remaining_debts = <<>>
    /\ Len(payoff_order) = 2
    /\ payoff_order[1].payoff_month < payoff_order[2].payoff_month
    /\ dp_result.total_months_to_debt_free.months = payoff_order[2].payoff_month

RECURSIVE SumInterest(_)
\* The interest of line 222 added over the open debts s in one period.
SumInterest(s) ==
    IF s = <<>> THEN 0
    ELSE MonthlyInterest(Head(s).balance - Head(s).min_payment, Head(s).interest_rate)
            + SumInterest(Tail(s))

\* What a period in which no debt is paid off takes from the open debts: the
\* balances before it and the interest it adds, less the balances after it.
PaidInPeriod ==
    SumBalances(remaining_debts) + SumInterest(remaining_debts)
        - SumBalances(remaining_debts')

C23_ShortfallNotCarried ==
    [][/\ cf_pc = "advance" =>
             /\ balance' = (IF balance_after > 0 THEN balance_after ELSE 0)
             /\ LastEntry.status = "DELAY_NEEDED" => balance' = 0
       /\ (cf_pc = "inflows" /\ bill_idx > 1) =>
             /\ balance' = balance + (credited' - credited)
             /\ balance' >= credited' - credited
             /\ balance' >= 0]_vars

\* The second bill is about to be evaluated with the inflows credited for it
\* in full, after a first bill that was delayed with a shortfall.
C23_Witness ==
    /\ cf_pc = "classify"
    /\ bill_idx = 2
    /\ schedule[1].status = "DELAY_NEEDED"
    /\ schedule[1].balance_after < 0
    /\ balance > 0
    /\ balance = credited

(***************************************************************************)
(* Multi-Decade Life Projector: income, status, peak, totals, bands        *)
(***************************************************************************)

\* The income and the net worth the loop holds before pass k.
IncomeBefore(k) == IF k = 1 THEN current_income * LScale ELSE year_locals[k - 1].income
NetWorthBefore(k) ==
    IF k = 1 THEN current_savings * LScale ELSE year_locals[k - 1].net_worth

\* C24: in a run with current_age < retirement_age the income of a year before
\* the retirement age is the income before it times 1.04 in the first ten
\* elapsed years, 1.03 in the next ten and 1.02 after; the income of the year
\* of the retirement age is 4% of the net worth at the end of the year before
\* plus 24000; and the income of every later year is that same value.
C24_IncomeBandsThenFixed ==
    current_age < retirement_age =>
        \A k \in 1..Len(year_locals) :
            year_locals[k].income =
                IF year_locals[k].age < retirement_age
                THEN MulDiv(IncomeBefore(k),
                            IF k - 1 < 10 THEN 104
                            ELSE IF k - 1 < 20 THEN 103 ELSE 102, 100)
                ELSE IF year_locals[k].age = retirement_age
                     THEN MulDiv(NetWorthBefore(k), 4, 100) + 24000 * LScale
                     ELSE year_locals[retirement_age - current_age + 1].income

\* A run has returned that worked through all three raise bands and went on
\* past retirement on the income fixed at the retirement age.
C24_Witness ==
    /\ lp_pc = "done"
    /\ current_income > 0
    /\ retirement_age - current_age > 20
    /\ year_locals[21].income > year_locals[20].income
    /\ year_locals[Len(year_locals)].income =
          year_locals[retirement_age - current_age + 1].income
    /\ year_locals[Len(year_locals)].net_worth #
          year_locals[retirement_age - current_age + 1].net_worth

\* C25: the status of every year record is "negative" exactly when the net
\* worth of that year is below zero, "warning" exactly when it is not and the
\* savings of that year are below zero, and "positive" exactly when neither
\* is below zero, whatever the status of the years before.
C25_StatusFromOwnYear ==
    \A k \in 1..Len(results) :
        /\ results[k].status = "negative" <=> year_locals[k].net_worth < 0
        /\ results[k].status = "warning" <=>
              (year_locals[k].net_worth >= 0 /\ year_locals[k].savings < 0)
        /\ results[k].status = "positive" <=>
              (year_locals[k].net_worth >= 0 /\ year_locals[k].savings >= 0)

\* A run has returned in which a year of negative savings and negative net
\* worth is "negative" and the year after it is "positive".
C25_Witness ==
    /\ lp_pc = "done"
    /\ \E k \in 1..(Len(results) - 1) :
          /\ results[k].status = "negative"
          /\ year_locals[k].savings < 0
          /\ results[k + 1].status = "positive"

\* The pass with the largest net worth, the earliest one when several have it.
PeakPass ==
    CHOOSE k \in 1..Len(year_locals) :
        \A j \in 1..Len(year_locals) :
            /\ year_locals[j].net_worth <= year_locals[k].net_worth
            /\ year_locals[j].net_worth = year_locals[k].net_worth => k <= j

\* C26: the peak net worth of the summary is the largest net worth of the
\* simulated years, and the peak age is the age of the earliest year that has
\* it, also when the net worth falls in the first simulated year.
C26_PeakIsMaxOfYears ==
    lp_pc = "done" =>
        /\ lp_result.summary.peakNetWorth = RoundUnits(year_locals[PeakPass].net_worth)
        /\ lp_result.summary.peakAge = year_locals[PeakPass].age
        /\ \E k \in 1..Len(results) :
              /\ results[k].age = lp_result.summary.peakAge
              /\ results[k].netWorth = lp_result.summary.peakNetWorth

RECURSIVE SumEventCostTerms(_)
\* The event-cost terms of the passes s added up, in currency units.
SumEventCostTerms(s) ==
    IF s = <<>> THEN 0 ELSE Head(s).event_costs \div LScale + SumEventCostTerms(Tail(s))

\* C29: the total event costs of the summary are the sum of the event costs
\* applied in the simulated years, also when an event's trigger lies outside
\* the simulated ages.
C29_TotalIsAppliedCosts ==
    lp_pc = "done" =>
        lp_result.summary.totalEventCosts = SumEventCostTerms(year_locals)

\* C30: the pessimistic net worth is at most the net worth of the retirement
\* year, which is at most the optimistic net worth, also when the net worth
\* of the retirement year is negative.
C30_BandsBracketBase ==
    lp_pc = "done" =>
        /\ lp_result.scenarios.pessimistic <= lp_result.summary.retirementNetWorth
        /\ lp_result.summary.retirementNetWorth <= lp_result.scenarios.optimistic

====
